---- MODULE Spec2Model ----
(***************************************************************************)
(* Verification model of four parts of the Fornjot kernel:                 *)
(*   - approx_edge        (crates/fj-kernel/src/algorithms/approx/edges.rs) *)
(*   - Cycles::create/all (src/kernel/shape/cycles.rs)                      *)
(*   - Shape for fj::Difference2d (src/kernel/shapes/difference_2d.rs)      *)
(*     and Edges for fj::Shape   (ng/src/geometry/edges.rs)                 *)
(*   - ContextExt         (crates/fj/src/models/context.rs)                 *)
(* Each part has its own specification (SpecApprox, SpecCycles, SpecShape,  *)
(* SpecContext); the variables of the other parts stay at their idle       *)
(* values.                                                                 *)
(***************************************************************************)
EXTENDS Integers, Sequences, FiniteSets, TLC

VARIABLES
    \* approx_edge: the call's arguments and the buffer it mutates
    vertices,   \* VerticesOfEdge: <<>> (none) or <<start, end>>
    interior,   \* contents of `points` when the call was made
    points,     \* the &mut Vec<LocalPoint<1>> buffer
    pcApprox,   \* "ready" before the call, "done" after it
    \* Cycles: the shape's cycle collection and the last call on it
    cycles,     \* CyclesInner, a Vec<Cycle>
    call,       \* the last call: [op |-> "none" | "create" | "all", edges |-> ...]
    ret,        \* what create returned
    listed,     \* what the iterator of all() yielded
    created,    \* history: the cycles built by the create calls so far, in call order
    \* Shapes: the shape a query is made on, the query and its outcome
    shape,      \* the receiver: an fj::Shape (Circle, Square, Sweep) or an fj::Difference2d
    query,      \* the last query: [op |-> ...] with what the collaborators returned
    result,     \* its outcome: [kind |-> "Ok", value |-> ...] or [kind |-> "Panic"]
    \* Context: the arguments passed to a model and the last lookup
    ctx,        \* a HashMap<String, String>: a function from the names present to values
    lookup,     \* the last lookup: [op |-> ..., name |-> ...]
    outcome     \* the Result it returned

approxVars == <<vertices, interior, points, pcApprox>>
cycleVars == <<cycles, call, ret, listed, created>>
shapeVars == <<shape, query, result>>
contextVars == <<ctx, lookup, outcome>>
vars == <<approxVars, cycleVars, shapeVars, contextVars>>

(***************************************************************************)
(* Bounds of the model.                                                    *)
(***************************************************************************)
MaxInterior == 2
MaxCycleLen == 2
MaxCycles == 2
MaxSize == 2
MaxEdges == 2
MaxTriangles == 2
MaxValueLen == 2

\* The last element of a non-empty sequence
Last(s) == s[Len(s)]

\* All sequences over S of length at most n
RECURSIVE SeqsUpTo(_, _)
SeqsUpTo(S, n) ==
    IF n = 0 THEN {<<>>}
    ELSE LET shorter == SeqsUpTo(S, n - 1)
         IN shorter \cup {Append(s, x) : s \in {t \in shorter : Len(t) = n - 1}, x \in S}

(***************************************************************************)
(* approx_edge                                                             *)
(***************************************************************************)

\* Coordinates are small integers: curve parameters (Point<1>) and
\* model-space positions (Point<3>); only their equality matters here.

\* geometry::LocalPoint::new(local, global)
LocalPoint(local, global) == [local |-> local, global |-> global]

\* GlobalVertex::from_position / Vertex::new
GlobalVertex(position) == [position |-> position]
Vertex(position, global) == [position |-> position, global |-> global]

\* VerticesOfEdge::none() / VerticesOfEdge::from_vertices([a, b])
NoVertices == <<>>
FromVertices(a, b) == <<a, b>>

\* The closure handed to VerticesOfEdge::convert
VertexToLocalPoint(vertex) == LocalPoint(vertex.position, vertex.global.position)

\* Mutants of approx_edge used to show that the claims depend on it
approx_edge_push_both(vs, pts) ==
    IF Len(vs) = 2
    THEN pts \o <<VertexToLocalPoint(vs[1]), VertexToLocalPoint(vs[2])>>
    ELSE IF pts # <<>> THEN Append(pts, Head(pts)) ELSE pts

approx_edge_push_last(vs, pts) ==
    IF Len(vs) = 2
    THEN <<VertexToLocalPoint(vs[1])>> \o pts \o <<VertexToLocalPoint(vs[2])>>
    ELSE IF pts # <<>> THEN Append(pts, Last(pts)) ELSE pts

\* approx_edge(vertices, points): the contents of `points` on return
approx_edge(vs, pts) ==
    LET converted == IF vs = NoVertices THEN NoVertices
                     ELSE <<VertexToLocalPoint(vs[1]), VertexToLocalPoint(vs[2])>>
        inserted == IF converted # NoVertices
                    THEN <<converted[1]>> \o pts \o <<converted[2]>>
                    ELSE pts
    IN IF converted = NoVertices
       THEN IF inserted # <<>> THEN Append(inserted, Head(inserted)) ELSE inserted
       ELSE inserted

\* Inputs: interior samples lie strictly inside the parameter range, the
\* bounding vertices at either end of it; an interior sample may carry the
\* same global position as a vertex.
InteriorPoints == {LocalPoint(l, g) : l \in {1, 2}, g \in {1, 2}}
EdgeVertices == {Vertex(l, GlobalVertex(g)) : l \in {0, 3}, g \in {0, 1, 3}}
VerticesOfEdge == {NoVertices} \cup {FromVertices(a, b) : a \in EdgeVertices, b \in EdgeVertices}

IdleApprox ==
    /\ vertices = NoVertices
    /\ interior = <<>>
    /\ points = <<>>
    /\ pcApprox = "idle"

IdleCycles ==
    /\ cycles = <<>>
    /\ call = [op |-> "none"]
    /\ ret = [kind |-> "None"]
    /\ listed = <<>>
    /\ created = <<>>

IdleShape ==
    /\ shape = [kind |-> "None"]
    /\ query = [op |-> "none"]
    /\ result = [kind |-> "None"]

IdleContext ==
    /\ ctx = <<>>
    /\ lookup = [op |-> "none"]
    /\ outcome = [kind |-> "None"]

InitApprox ==
    /\ vertices \in VerticesOfEdge
    /\ interior \in SeqsUpTo(InteriorPoints, MaxInterior)
    /\ points = interior
    /\ pcApprox = "ready"
    /\ IdleCycles
    /\ IdleShape
    /\ IdleContext

ApproxEdge ==
    /\ pcApprox = "ready"
    /\ points' = approx_edge(vertices, points)
    /\ pcApprox' = "done"
    /\ UNCHANGED <<vertices, interior>>
    /\ UNCHANGED <<cycleVars, shapeVars, contextVars>>

NextApprox == ApproxEdge

SpecApprox == InitApprox /\ [][NextApprox]_vars

\* C1: for an edge with two bounding vertices (start a, end b) the buffer
\* after approx_edge is [LocalPoint(a.local, a.global.position)] ++ P ++
\* [LocalPoint(b.local, b.global.position)] for every interior sequence P:
\* exact vertex points first and last, interior unchanged, length + 2.
C1_RegularEdge ==
    (pcApprox = "done" /\ Len(vertices) = 2) =>
        /\ points = <<LocalPoint(vertices[1].position, vertices[1].global.position)>>
                    \o interior
                    \o <<LocalPoint(vertices[2].position, vertices[2].global.position)>>
        /\ Len(points) = Len(interior) + 2
        /\ Head(points).global = vertices[1].global.position
        /\ Last(points).global = vertices[2].global.position

C1_Witness ==
    /\ pcApprox = "done"
    /\ Len(vertices) = 2
    /\ Len(interior) = 2
    /\ interior[1] # interior[2]
    /\ vertices[1] # vertices[2]
    /\ Len(points) = 4

\* C2: for an edge with no bounding vertices the buffer after approx_edge is
\* P followed by a copy of P's first point when P is non-empty (so first and
\* last are equal and P is unchanged), and stays empty when P is empty.
C2_ContinuousEdge ==
    (pcApprox = "done" /\ vertices = NoVertices) =>
        IF interior = <<>>
        THEN points = <<>>
        ELSE /\ points = Append(interior, interior[1])
             /\ Head(points) = Last(points)
             /\ SubSeq(points, 1, Len(interior)) = interior

C2_Witness ==
    /\ pcApprox = "done"
    /\ vertices = NoVertices
    /\ Len(interior) = 2
    /\ interior[1] # interior[2]
    /\ Len(points) = 3

(***************************************************************************)
(* Cycles::create / Cycles::all                                            *)
(***************************************************************************)

\* An Edge, as far as cycles are concerned: the curve it lies on and the
\* GlobalVertex it starts and ends at.  Edges are values; two edges are the
\* same edge iff they are equal.
Edge(curve, start, end) == [curve |-> curve, start |-> start, end |-> end]

\* The edges known to the shape
ShapeEdges == {Edge("c12", 1, 2), Edge("c21", 2, 1), Edge("c23", 2, 3)}

\* Cycle { edges }
Cycle(edges) == [edges |-> edges]

\* The set of edges of a cycle
EdgeSet(cycle) == {cycle.edges[i] : i \in 1..Len(cycle.edges)}

\* Whether an edge sequence closes: each edge ends where the next one
\* starts, wrapping around
Closes(edges) ==
    \A i \in 1..Len(edges) : edges[i].end = edges[(i % Len(edges)) + 1].start

\* Mutant of create: the new cycle is put in front of the collection
create_insert_front(cs, edges) ==
    LET cycle == Cycle(edges)
    IN [cycles |-> <<cycle>> \o cs, ret |-> [kind |-> "Ok", cycle |-> cycle]]

\* Cycles::create(edges): the collection afterwards and the value returned.
\* The method returns a Cycle, never an error.
create(cs, edges) ==
    LET cycle == Cycle(edges)
    IN [cycles |-> Append(cs, cycle), ret |-> [kind |-> "Ok", cycle |-> cycle]]

\* Cycles::all(): the cycles the iterator yields, in order
all(cs) == [i \in 1..Len(cs) |-> cs[i]]

InitCycles ==
    /\ IdleCycles
    /\ IdleApprox
    /\ IdleShape
    /\ IdleContext

Create ==
    /\ Len(cycles) < MaxCycles
    /\ \E edges \in SeqsUpTo(ShapeEdges, MaxCycleLen) :
        /\ cycles' = create(cycles, edges).cycles
        /\ ret' = create(cycles, edges).ret
        /\ call' = [op |-> "create", edges |-> edges]
        /\ created' = Append(created, Cycle(edges))
    /\ UNCHANGED listed
    /\ UNCHANGED <<approxVars, shapeVars, contextVars>>

All ==
    /\ listed' = all(cycles)
    /\ call' = [op |-> "all"]
    /\ UNCHANGED <<cycles, ret, created>>
    /\ UNCHANGED <<approxVars, shapeVars, contextVars>>

NextCycles == Create \/ All

SpecCycles == InitCycles /\ [][NextCycles]_vars

\* C4: duplicate-cycle rejection: a create call whose edge set equals the
\* edge set of a cycle already in the collection fails with a validation
\* error and adds no cycle.
C4_DuplicateRejected ==
    [][(/\ call'.op = "create"
        /\ \E i \in 1..Len(cycles) :
              EdgeSet(cycles[i]) = {call'.edges[k] : k \in 1..Len(call'.edges)})
       => (ret'.kind = "Err" /\ cycles' = cycles)]_vars

\* C5: cycle closure: every stored cycle has the end vertex of edge[i] equal
\* to the start vertex of edge[(i+1) mod n], and a create call whose edge
\* sequence has a gap fails instead of being stored.
C5_CyclesClose ==
    /\ \A i \in 1..Len(cycles) : Closes(cycles[i].edges)
    /\ (call.op = "create" /\ ~Closes(call.edges)) => ret.kind = "Err"

\* C6: the collection is append-only under create: a create call appends
\* exactly one cycle holding the given edges in the given order, returns a
\* cycle equal to it and leaves the earlier cycles in place; all() yields
\* exactly the cycles created so far and changes nothing.
C6_AppendOnly ==
    [][/\ call'.op = "create" =>
            /\ Len(cycles') = Len(cycles) + 1
            /\ SubSeq(cycles', 1, Len(cycles)) = cycles
            /\ Last(cycles').edges = call'.edges
            /\ ret' = [kind |-> "Ok", cycle |-> Last(cycles')]
            /\ cycles' = created'
            /\ listed' = listed
       /\ call'.op = "all" =>
            /\ listed' = created
            /\ cycles' = cycles
            /\ ret' = ret]_vars

C6_Witness ==
    /\ call.op = "all"
    /\ Len(cycles) = 2
    /\ cycles[1] # cycles[2]
    /\ listed = cycles
    /\ ret.kind = "Ok"

(***************************************************************************)
(* Edges for fj::Shape (segments)                                          *)
(***************************************************************************)

\* The fj shapes of the segments query: Shape2d is a Circle or a Square,
\* Shape3d a Sweep of a 2D shape.
Circle(radius) == [kind |-> "Circle", radius |-> radius]
Square(size) == [kind |-> "Square", size |-> size]
Sweep(shape2d, length) == [kind |-> "Sweep", shape |-> shape2d, length |-> length]

Shapes2d == {Circle(r) : r \in 1..MaxSize} \cup {Square(s) : s \in 1..MaxSize}
Shapes3d == {Sweep(s, l) : s \in Shapes2d, l \in 1..MaxSize}
FjShapes == Shapes2d \cup Shapes3d

Tolerances == {1, 2}

\* Outcomes of a call: a returned value, or the panic of todo!()
Ok(value) == [kind |-> "Ok", value |-> value]
Panic == [kind |-> "Panic"]

\* Segment::from([a, b])
Segment(a, b) == <<a, b>>

\* Vertices for fj::Square: the four corners, counter-clockwise
square_vertices(sq) ==
    <<[x |-> 0 - sq.size, y |-> 0 - sq.size], [x |-> sq.size, y |-> 0 - sq.size],
      [x |-> sq.size, y |-> sq.size], [x |-> 0 - sq.size, y |-> sq.size]>>

\* Edges for fj::Circle: todo!()
circle_segments(circle, tolerance) == Panic

\* Edges for fj::Square
square_segments(sq, tolerance) ==
    LET v == square_vertices(sq)
    IN Ok(<<Segment(v[1], v[2]), Segment(v[2], v[3]),
            Segment(v[3], v[4]), Segment(v[4], v[1])>>)

\* Edges for fj::Sweep: todo!()
sweep_segments(sweep, tolerance) == Panic

\* Edges for fj::Shape, fj::Shape2d and fj::Shape3d: dispatch on the variant
segments(s, tolerance) ==
    CASE s.kind = "Circle" -> circle_segments(s, tolerance)
      [] s.kind = "Square" -> square_segments(s, tolerance)
      [] s.kind = "Sweep" -> sweep_segments(s, tolerance)

(***************************************************************************)
(* Shape for fj::Difference2d                                              *)
(***************************************************************************)

\* Points of the plane, compared by value
DiffPoints == {1, 2, 3, 4}

\* The edges the operands are built from (straight lines between points)
OperandEdges == {Edge("l12", 1, 2), Edge("l23", 2, 3), Edge("l34", 3, 4)}

\* parry3d AABB, one axis
AABB(mins, maxs) == [mins |-> mins, maxs |-> maxs]
AABBs == {AABB(0, 1), AABB(0, 2)}

\* An operand of the difference, seen through the Shape trait: its bounding
\* volume and its edges
Operand(aabb, edges) == [aabb |-> aabb, edges |-> edges]
Operands == {Operand(box, es) : box \in AABBs, es \in SeqsUpTo(OperandEdges, MaxEdges)}

Difference2d(a, b) == [kind |-> "Difference2d", a |-> a, b |-> b]
Differences == {Difference2d(a, b) : a \in Operands, b \in Operands}

\* self.a.bounding_volume(), self.a.edges() of an operand
operand_bounding_volume(s) == s.aabb
operand_edges(s) == s.edges

\* Edge::reverse: the same curve, run through in the opposite direction
reverse(edge) == Edge(edge.curve, edge.end, edge.start)

\* Edge::approx_vertices: a straight edge is approximated by its end points
approx_vertices(edge, tolerance) == <<edge.start, edge.end>>

\* .map(..).flatten().collect()
RECURSIVE Flatten(_)
Flatten(ss) == IF ss = <<>> THEN <<>> ELSE Head(ss) \o Flatten(Tail(ss))

\* Vec::contains
contains(v, x) == \E i \in 1..Len(v) : v[i] = x

\* Triangle and Triangle::edges
Triangle(a, b, c) == <<a, b, c>>
triangle_edges(t) ==
    <<[a |-> t[1], b |-> t[2]], [a |-> t[2], b |-> t[3]], [a |-> t[3], b |-> t[1]]>>

\* What triangulate(&vertices) may return: triangles over the given points,
\* at most MaxTriangles of them, no triangle twice
TrianglesOver(vs) ==
    LET ps == {vs[i] : i \in 1..Len(vs)}
    IN {Triangle(p, q, r) : p \in ps, q \in ps, r \in ps} \cap
       {t \in DiffPoints \X DiffPoints \X DiffPoints : t[1] < t[2] /\ t[2] < t[3]}

Triangulations(vs) ==
    {ts \in SeqsUpTo(TrianglesOver(vs), MaxTriangles) :
        \A i, j \in 1..Len(ts) : i < j => ts[i][1] * 100 + ts[i][2] * 10 + ts[i][3]
                                         < ts[j][1] * 100 + ts[j][2] * 10 + ts[j][3]}

\* Difference2d::bounding_volume
bounding_volume_of_b(d) == operand_bounding_volume(d.b)

bounding_volume(d) == operand_bounding_volume(d.a)

\* The points a and b of Difference2d::faces
points_of(operand, tolerance) ==
    Flatten([i \in 1..Len(operand_edges(operand)) |->
                approx_vertices(operand_edges(operand)[i], tolerance)])

\* Mutant of the counter: an edge counts when either end point is in b
edges_of_b_either(triangle, b) ==
    Cardinality({i \in 1..3 :
        \/ contains(b, triangle_edges(triangle)[i].a)
        \/ contains(b, triangle_edges(triangle)[i].b)})

\* The counter of the retain closure in Difference2d::faces
edges_of_b(triangle, b) ==
    Cardinality({i \in 1..3 :
        /\ contains(b, triangle_edges(triangle)[i].a)
        /\ contains(b, triangle_edges(triangle)[i].b)})

\* Mutant of faces: the retain closure compares with < instead of <=
faces_strict_threshold(d, tolerance, triangles) ==
    LET b == points_of(d.b, tolerance)
        keep(t) == edges_of_b(t, b) < 1
    IN SelectSeq(triangles, keep)

\* Difference2d::faces, given what triangulate returned for a ++ b
faces(d, tolerance, triangles) ==
    LET b == points_of(d.b, tolerance)
        keep(t) == edges_of_b(t, b) <= 1
    IN SelectSeq(triangles, keep)

\* Mutant of edges: the edges of b are pushed as they are
edges_not_reversed(d) == operand_edges(d.a) \o operand_edges(d.b)

\* Difference2d::edges
edges(d) ==
    operand_edges(d.a) \o
        [i \in 1..Len(operand_edges(d.b)) |-> reverse(operand_edges(d.b)[i])]

\* Difference2d::vertices: todo!()
difference_vertices(d) == Panic

InitShape ==
    /\ shape \in FjShapes \cup Differences
    /\ query = [op |-> "none"]
    /\ result = [kind |-> "None"]
    /\ IdleApprox
    /\ IdleCycles
    /\ IdleContext

Segments ==
    /\ shape.kind \in {"Circle", "Square", "Sweep"}
    /\ \E tolerance \in Tolerances :
        /\ query' = [op |-> "segments", tolerance |-> tolerance]
        /\ result' = segments(shape, tolerance)
    /\ UNCHANGED <<shape, approxVars, cycleVars, contextVars>>

BoundingVolume ==
    /\ shape.kind = "Difference2d"
    /\ query' = [op |-> "bounding_volume"]
    /\ result' = Ok(bounding_volume(shape))
    /\ UNCHANGED <<shape, approxVars, cycleVars, contextVars>>

Faces ==
    /\ shape.kind = "Difference2d"
    /\ \E tolerance \in Tolerances :
        LET a == points_of(shape.a, tolerance)
            b == points_of(shape.b, tolerance)
        IN \E triangles \in Triangulations(a \o b) :
            /\ query' = [op |-> "faces", b |-> b, triangles |-> triangles]
            /\ result' = Ok(faces(shape, tolerance, triangles))
    /\ UNCHANGED <<shape, approxVars, cycleVars, contextVars>>

Edges ==
    /\ shape.kind = "Difference2d"
    /\ query' = [op |-> "edges"]
    /\ result' = Ok(edges(shape))
    /\ UNCHANGED <<shape, approxVars, cycleVars, contextVars>>

Vertices ==
    /\ shape.kind = "Difference2d"
    /\ query' = [op |-> "vertices"]
    /\ result' = difference_vertices(shape)
    /\ UNCHANGED <<shape, approxVars, cycleVars, contextVars>>

NextShape == Segments \/ BoundingVolume \/ Faces \/ Edges \/ Vertices

SpecShape == InitShape /\ [][NextShape]_vars

\* C7: the bounding volume reported by Difference2d (A - B) equals A's
\* bounding volume exactly, whatever B is.
C7_BoundingVolumeOfA ==
    query.op = "bounding_volume" =>
        /\ result.kind = "Ok"
        /\ result.value = shape.a.aabb

C7_Witness ==
    /\ query.op = "bounding_volume"
    /\ shape.a.aabb # shape.b.aabb
    /\ result.kind = "Ok"
    /\ result.value = AABB(0, 1)

\* The number of edges of a triangle that have both end points in b
BothInB(t, b) ==
    (IF contains(b, t[1]) /\ contains(b, t[2]) THEN 1 ELSE 0)
    + (IF contains(b, t[2]) /\ contains(b, t[3]) THEN 1 ELSE 0)
    + (IF contains(b, t[3]) /\ contains(b, t[1]) THEN 1 ELSE 0)

\* C8: difference triangle classification: of the candidate triangles the
\* triangulation returned, faces keeps exactly those with at most 1 edge
\* having both end points in b; none with 2 or 3 such edges survives and
\* none with 0 or 1 is dropped.
C8_TriangleClassification ==
    query.op = "faces" =>
        /\ result.kind = "Ok"
        /\ \A i \in 1..Len(result.value) :
            /\ contains(query.triangles, result.value[i])
            /\ BothInB(result.value[i], query.b) \notin {2, 3}
        /\ \A i \in 1..Len(query.triangles) :
            BothInB(query.triangles[i], query.b) \in {0, 1}
                => contains(result.value, query.triangles[i])

C8_Witness ==
    /\ query.op = "faces"
    /\ Len(query.triangles) = 2
    /\ Len(result.value) = 1
    /\ \E i \in 1..2 : BothInB(query.triangles[i], query.b) = 1
    /\ \E i \in 1..2 : BothInB(query.triangles[i], query.b) = 3

\* C9: edge reconstruction: edges returns A's edges in their order and
\* direction, followed by every edge of B reversed, in B's order,
\* |edges(A)| + |edges(B)| edges in all, and returns them whether or not B
\* lies within A.
C9_EdgeReconstruction ==
    query.op = "edges" =>
        /\ result.kind = "Ok"
        /\ Len(result.value) = Len(shape.a.edges) + Len(shape.b.edges)
        /\ SubSeq(result.value, 1, Len(shape.a.edges)) = shape.a.edges
        /\ \A i \in 1..Len(shape.b.edges) :
            LET e == result.value[Len(shape.a.edges) + i]
            IN /\ e.curve = shape.b.edges[i].curve
               /\ e.start = shape.b.edges[i].end
               /\ e.end = shape.b.edges[i].start

\* B reaches outside A: B's bounding volume is not within A's
C9_Witness ==
    /\ query.op = "edges"
    /\ shape.b.aabb.maxs > shape.a.aabb.maxs
    /\ Len(shape.a.edges) = 2
    /\ Len(shape.b.edges) = 2
    /\ shape.b.edges[1] # shape.b.edges[2]
    /\ result.kind = "Ok"
    /\ Len(result.value) = 4

\* C10: unsupported operations are reported failures: segments of a Circle,
\* segments of a Sweep and vertices of a Difference2d return a
\* "not supported" error to the caller and never panic.
C10_UnsupportedReported ==
    /\ (query.op = "segments" /\ shape.kind \in {"Circle", "Sweep"})
        => result.kind = "Unsupported"
    /\ (query.op = "vertices" /\ shape.kind = "Difference2d")
        => result.kind = "Unsupported"

\* The number of corners of a triangle that are points of b (by value)
CornersInB(t, b) == Cardinality({i \in 1..3 : contains(b, t[i])})

\* C12: in faces the count of a triangle's edges with both end points in b
\* is 0, 1 or 3, never 2; a candidate triangle is discarded iff all three
\* of its corners are points of b (by value, so a point of A that coincides
\* with a point of B counts), and one with at most two corners in b
\* survives.
C12_CountNeverTwo ==
    query.op = "faces" =>
        \A i \in 1..Len(query.triangles) :
            LET t == query.triangles[i]
            IN /\ edges_of_b(t, query.b) \in {0, 1, 3}
               /\ contains(result.value, t) <=> CornersInB(t, query.b) <= 2
               /\ ~contains(result.value, t) <=> CornersInB(t, query.b) = 3

\* One candidate with two corners in b survives, one with three is dropped,
\* and a point of A's boundary is also a point of b
C12_Witness ==
    /\ query.op = "faces"
    /\ \E i \in 1..Len(query.triangles) :
        /\ CornersInB(query.triangles[i], query.b) = 2
        /\ contains(result.value, query.triangles[i])
    /\ \E i \in 1..Len(query.triangles) :
        /\ CornersInB(query.triangles[i], query.b) = 3
        /\ ~contains(result.value, query.triangles[i])
    /\ \E i \in 1..Len(shape.a.edges) :
        contains(query.b, shape.a.edges[i].end)

(***************************************************************************)
(* Context / ContextExt                                                    *)
(***************************************************************************)

\* Argument names and the characters argument values are made of.  A value
\* is a string, modelled as the sequence of its characters.
ArgNames == {"width", "height"}
Chars == {"2", "9", "x"}
Digits == {"2", "9"}
ArgValues == SeqsUpTo(Chars, MaxValueLen)

\* The contexts: every map from some of the names to values
Contexts ==
    LET Absent == <<"absent">>
        total == [ArgNames -> ArgValues \cup {Absent}]
    IN {[n \in {m \in ArgNames : f[m] # Absent} |-> f[n]] : f \in total}

\* Option and Result values
None == [some |-> FALSE]
Some(value) == [some |-> TRUE, value |-> value]
Err(error) == [kind |-> "Err", error |-> error]

\* The error types
MissingArgument(name) == [type |-> "MissingArgument", name |-> name]
ParseFailed(name, value, error) ==
    [type |-> "ParseFailed", name |-> name, value |-> value, error |-> error]
\* ContextError::from: the variant named after the error it wraps
ContextError(error) == [type |-> "ContextError", variant |-> error.type, inner |-> error]

\* Context::get_argument for HashMap<String, String>
get_argument(c, name) == IF name \in DOMAIN c THEN Some(c[name]) ELSE None

\* value.parse::<T>() with T = u8: decimal digits only, at least one, and
\* the number must fit 8 bits
DigitValue(ch) == CASE ch = "2" -> 2 [] ch = "9" -> 9
RECURSIVE parse_digits(_, _)
parse_digits(value, acc) ==
    IF value = <<>> THEN Ok(acc)
    ELSE IF Head(value) \notin Digits THEN Err("InvalidDigit")
    ELSE IF acc * 10 + DigitValue(Head(value)) > 255 THEN Err("PosOverflow")
    ELSE parse_digits(Tail(value), acc * 10 + DigitValue(Head(value)))
parse(value) == IF value = <<>> THEN Err("Empty") ELSE parse_digits(value, 0)

\* ContextExt::get_required_argument
get_required_argument(c, name) ==
    LET found == get_argument(c, name)
    IN IF found.some THEN Ok(found.value) ELSE Err(MissingArgument(name))

\* ContextExt::parse_argument
parse_argument(c, name) ==
    LET required == get_required_argument(c, name)
    IN IF required.kind = "Err" THEN Err(ContextError(required.error))
       ELSE LET value == required.value
                parsed == parse(value)
            IN IF parsed.kind = "Err"
               THEN Err(ContextError(ParseFailed(name, value, parsed.error)))
               ELSE Ok(parsed.value)

\* Mutant of parse_optional_argument: a value that does not parse is
\* treated like an absent argument
parse_optional_argument_lenient(c, name) ==
    LET found == get_argument(c, name)
    IN IF ~found.some THEN Ok(None)
       ELSE IF parse(found.value).kind = "Err" THEN Ok(None)
       ELSE Ok(Some(parse(found.value).value))

\* ContextExt::parse_optional_argument
parse_optional_argument(c, name) ==
    LET found == get_argument(c, name)
    IN IF ~found.some THEN Ok(None)
       ELSE LET value == found.value
                parsed == parse(value)
            IN IF parsed.kind = "Err"
               THEN Err(ParseFailed(name, value, parsed.error))
               ELSE Ok(Some(parsed.value))

InitContext ==
    /\ ctx \in Contexts
    /\ lookup = [op |-> "none"]
    /\ outcome = [kind |-> "None"]
    /\ IdleApprox
    /\ IdleCycles
    /\ IdleShape

GetRequiredArgument ==
    /\ \E name \in ArgNames :
        /\ lookup' = [op |-> "get_required_argument", name |-> name]
        /\ outcome' = get_required_argument(ctx, name)
    /\ UNCHANGED <<ctx, approxVars, cycleVars, shapeVars>>

ParseArgument ==
    /\ \E name \in ArgNames :
        /\ lookup' = [op |-> "parse_argument", name |-> name]
        /\ outcome' = parse_argument(ctx, name)
    /\ UNCHANGED <<ctx, approxVars, cycleVars, shapeVars>>

ParseOptionalArgument ==
    /\ \E name \in ArgNames :
        /\ lookup' = [op |-> "parse_optional_argument", name |-> name]
        /\ outcome' = parse_optional_argument(ctx, name)
    /\ UNCHANGED <<ctx, approxVars, cycleVars, shapeVars>>

NextContext == GetRequiredArgument \/ ParseArgument \/ ParseOptionalArgument

SpecContext == InitContext /\ [][NextContext]_vars

\* Whether a raw value is a decimal number that fits 8 bits, and which
RECURSIVE DecimalOf(_)
DecimalOf(value) ==
    IF value = <<>> THEN 0 ELSE DecimalOf(SubSeq(value, 1, Len(value) - 1)) * 10
                                + (IF Last(value) = "2" THEN 2 ELSE 9)
Parses(value) ==
    /\ value # <<>>
    /\ \A i \in 1..Len(value) : value[i] \in {"2", "9"}
    /\ DecimalOf(value) <= 255

\* C11: argument lookup error classification.  When the argument is absent,
\* get_required_argument and parse_argument fail with MissingArgument
\* carrying the name and parse_optional_argument returns Ok(None); when it
\* is present but does not parse, parse_argument and
\* parse_optional_argument fail with ParseFailed carrying the name and the
\* raw value; when it is present and parses they return the parsed value
\* (in Some for the optional variant).
C11_LookupClassification ==
    lookup.op # "none" =>
        LET name == lookup.name
            absent == name \notin DOMAIN ctx
        IN /\ (lookup.op = "get_required_argument" /\ absent) =>
                outcome = Err(MissingArgument(name))
           /\ (lookup.op = "get_required_argument" /\ ~absent) =>
                outcome = Ok(ctx[name])
           /\ (lookup.op = "parse_argument" /\ absent) =>
                /\ outcome.kind = "Err"
                /\ outcome.error.variant = "MissingArgument"
                /\ outcome.error.inner = MissingArgument(name)
           /\ (lookup.op = "parse_optional_argument" /\ absent) =>
                outcome = Ok(None)
           /\ (lookup.op = "parse_argument" /\ ~absent /\ ~Parses(ctx[name])) =>
                /\ outcome.kind = "Err"
                /\ outcome.error.variant = "ParseFailed"
                /\ outcome.error.inner.name = name
                /\ outcome.error.inner.value = ctx[name]
           /\ (lookup.op = "parse_optional_argument" /\ ~absent /\ ~Parses(ctx[name])) =>
                /\ outcome.kind = "Err"
                /\ outcome.error.type = "ParseFailed"
                /\ outcome.error.name = name
                /\ outcome.error.value = ctx[name]
           /\ (lookup.op = "parse_argument" /\ ~absent /\ Parses(ctx[name])) =>
                outcome = Ok(DecimalOf(ctx[name]))
           /\ (lookup.op = "parse_optional_argument" /\ ~absent /\ Parses(ctx[name])) =>
                outcome = Ok(Some(DecimalOf(ctx[name])))

\* A context with one argument absent and the other present but not
\* parseable, asked for the latter through the optional variant
C11_Witness ==
    /\ lookup.op = "parse_optional_argument"
    /\ DOMAIN ctx = {"width"}
    /\ lookup.name = "width"
    /\ ctx["width"] = <<"2", "x">>
    /\ outcome.kind = "Err"
    /\ outcome.error.type = "ParseFailed"
====
